---- MODULE Spec2Model ----
(***************************************************************************)
(* Gallery viewing subsystem of the public photo-gallery site: the cursor  *)
(* paginated image collection (useGalleryImagesInfinite), the lightbox     *)
(* navigation hook (useLightbox), the deep-link effects of                 *)
(* GalleryContainer and the window calculator of VirtualizedGalleryGrid.   *)
(***************************************************************************)
EXTENDS Integers, Sequences, FiniteSets, TLC

(* ----------------------------- bounds ---------------------------------- *)
\* Largest number of images the backend holds.
MaxImages == 2
\* Page size requested by the container in the model (GalleryContainer's
\* default is PageSize).
PageLimit == 1
\* How often the backend's ordering may change while the page is open.
MaxReorders == 1
\* Focus-restoration timeouts that may be pending at once.
MaxTimers == 1

(* --------------------------- basic values ------------------------------ *)
\* GalleryContainer's default limit.
PageSize == 20

\* `undefined` page parameter / absent cursor.
Undefined == -1

Min(a, b) == IF a < b THEN a ELSE b
Max(a, b) == IF a > b THEN a ELSE b

\* JavaScript's % operator: the result takes the sign of the dividend.
JsMod(a, n) == IF a >= 0 THEN a % n ELSE -((-a) % n)

\* The k-th image the backend holds at start: ids are positive and differ
\* from both display_order and array index.
MakeImage(k) == [id |-> 10 + k, display_order |-> k - 1]
MakeDb(n) == [k \in 1..n |-> MakeImage(k)]

\* Ids a caller or a URL may name: every backend id and one id no image has.
UnknownId == 10 + MaxImages + 1
ImageIds == {10 + k : k \in 1..MaxImages} \cup {UnknownId}

(* ------------------------ page-fetch contract -------------------------- *)
\* A request's query string: limit, and the cursor parameter when present
\* (cursor is <<>> when the parameter is absent, <<c>> otherwise).
\* Images of d whose display_order lies after the request's cursor, in order.
AfterCursor(d, cursor) ==
    SelectSeq(d, LAMBDA img : cursor = <<>> \/ img.display_order > cursor[1])

\* The backend's answer to GET /gallery-images?limit=&cursor=.
ServerPage(d, req) ==
    LET rest == AfterCursor(d, req.cursor)
        imgs == SubSeq(rest, 1, Min(req.limit, Len(rest)))
        more == Len(rest) > req.limit
    IN [images |-> imgs,
        pagination |-> [has_more |-> more,
                        next_cursor |-> IF more THEN imgs[Len(imgs)].display_order
                                        ELSE Undefined,
                        total_count |-> Len(d)]]

\* An admin moves the first image of the gallery to its end.
ReorderDb(d) ==
    IF Len(d) < 2 THEN d
    ELSE Tail(d) \o <<[id |-> d[1].id,
                       display_order |-> d[Len(d)].display_order + 1]>>

(* ------------------------- API client (client.ts) ---------------------- *)
\* HTTP outcomes of one request: 0 stands for a network failure (fetch
\* itself rejects), 200 for success, the rest are error responses.
NetworkFailure == 0
HttpOk == 200
ErrorStatuses == {NetworkFailure, 404, 500, 504}

\* Error payloads: no JSON body, or a FastAPI `detail.message` text.  A text
\* is a sequence of segments; the segment "4" is the character '4', every
\* other segment is text without that character.
NoDetail == <<>>
Details == {NoDetail, <<"Image not found">>, <<"Upstream returned ", "4", " errors">>}

Digit(d) == CASE d = 0 -> "0" [] d = 1 -> "1" [] d = 2 -> "2" [] d = 3 -> "3"
              [] d = 4 -> "4" [] d = 5 -> "5" [] d = 6 -> "6" [] d = 7 -> "7"
              [] d = 8 -> "8" [] OTHER -> "9"
\* response.status rendered in a template string (three decimal digits).
StatusDigits(st) == <<Digit(st \div 100), Digit((st \div 10) % 10), Digit(st % 10)>>
StatusText(st) == CASE st = 404 -> "Not Found"
                    [] st = 500 -> "Internal Server Error"
                    [] st = 504 -> "Gateway Timeout"
                    [] OTHER -> ""

\* The message of the Error fetchGalleryImages throws for a failed request.
ErrorMessage(st, detail) ==
    LET inner == IF st = NetworkFailure THEN <<"Failed to fetch">>
                 ELSE IF detail # NoDetail THEN detail
                 ELSE <<"Gallery API error: ">> \o StatusDigits(st)
                        \o <<" ", StatusText(st)>>
    IN <<"Gallery fetch failed: ">> \o inner

\* String.prototype.includes('4').
IncludesFour(msg) == \E i \in 1..Len(msg) : msg[i] = "4"

\* Mutant of BuildRequest: the cursor parameter is never set.
BuildRequestNoCursor(limit, cursor) == [limit |-> limit, cursor |-> <<>>]

\* The URL's query: the cursor parameter is set only for a cursor that is
\* neither undefined nor null.
BuildRequest(limit, cursor) ==
    [limit |-> limit,
     cursor |-> IF cursor # Undefined THEN <<cursor>> ELSE <<>>]

(* ------------------- useGalleryImagesInfinite options ------------------ *)
\* Number of failures after which a retryable error is no longer retried.
RetryLimit == 3

GetNextPageParam(lastPage) ==
    IF lastPage.pagination.has_more THEN lastPage.pagination.next_cursor
    ELSE Undefined

\* retry: (failureCount, error) => ...
ShouldRetry(failureCount, msg) ==
    IF IncludesFour(msg) THEN FALSE ELSE failureCount < RetryLimit

RECURSIVE FlattenFrom(_, _)
FlattenFrom(ps, i) ==
    IF i > Len(ps) THEN <<>> ELSE ps[i].images \o FlattenFrom(ps, i + 1)

RECURSIVE FlattenNewestFirstFrom(_, _)
FlattenNewestFirstFrom(ps, i) ==
    IF i < 1 THEN <<>> ELSE ps[i].images \o FlattenNewestFirstFrom(ps, i - 1)

\* Mutant of FlattenGalleryImages: the newest page comes first.
FlattenNewestFirst(ps) == FlattenNewestFirstFrom(ps, Len(ps))

\* data?.pages.flatMap(page => page.images) ?? []
FlattenGalleryImages(ps) == FlattenFrom(ps, 1)

(* ----------------------- useLightbox (pure parts) ---------------------- *)
RECURSIVE FindFrom(_, _, _)
FindFrom(imgs, id, i) ==
    IF i > Len(imgs) THEN -1
    ELSE IF imgs[i].id = id THEN i - 1
    ELSE FindFrom(imgs, id, i + 1)

\* images.findIndex(img => img.id === id): zero-based index, -1 if absent.
FindIndex(imgs, id) == FindFrom(imgs, id, 1)

\* Math.max(0, Math.min(index, images.length - 1))
ClampIndex(imgs, index) == Max(0, Min(index, Len(imgs) - 1))

\* open(number): the index the hook stores.
OpenIndexResult(imgs, index) == ClampIndex(imgs, index)

\* Mutant of OpenImageResult: a found image is stored as the last index.
OpenImageResultLast(imgs, id) ==
    LET index == FindIndex(imgs, id)
    IN IF index # -1 THEN Len(imgs) - 1 ELSE Len(imgs)

\* open(image): the index the hook stores.
OpenImageResult(imgs, id) ==
    LET index == FindIndex(imgs, id)
    IN IF index # -1 THEN index ELSE Len(imgs)

\* Mutant of GoToResult: the index wraps around instead of being clamped.
GoToResultWrapping(imgs, index) ==
    IF Len(imgs) = 0 THEN 0
    ELSE LET m == JsMod(index, Len(imgs)) IN IF m < 0 THEN m + Len(imgs) ELSE m

\* goTo(index)
GoToResult(imgs, index) == ClampIndex(imgs, index)

\* Mutant of GoToNextIndex: stops at the last index instead of wrapping.
GoToNextIndexNoWrap(prev, n) == Min(prev + 1, n - 1)

\* goToNext's updater: prev => (prev + 1) % images.length
GoToNextIndex(prev, n) == JsMod(prev + 1, n)

\* goToPrevious's updater: prev => (prev - 1 + images.length) % images.length
GoToPreviousIndex(prev, n) == JsMod(prev - 1 + n, n)

(* ------------------------------- state --------------------------------- *)
VARIABLES
    db,             \* backend: the gallery's images in display order
    dbVersion,      \* backend: how often the ordering has changed
    pages,          \* query data: data.pages
    status,         \* query status: "pending" | "success" | "error"
    fetchStatus,    \* "idle" | "fetching"
    fetchDirection, \* what the running fetch is: "initial" | "forward" | "refetch"
    newPages,       \* pages collected by the running fetch
    request,        \* parameters of the running queryFn call
    response,       \* HTTP response that has arrived and is not yet handled
    failureCount,   \* failures of the running fetch so far
    isOpen,         \* useLightbox: isOpen
    currentIndex,   \* useLightbox: currentIndex (zero-based)
    triggerElement, \* useLightbox: triggerElementRef.current
    urlImageId,     \* router: the :imageId segment, 0 when the path is /gallery
    route,          \* router: "gallery" | "notfound"
    restoreTimers,  \* useLightbox: focus-restoration timeouts not yet run
    effectsPending, \* a render was committed whose effects have not run yet
    lastOp,         \* the handler that ran last
    imagesLength,   \* VirtualizedGalleryGrid: images.length of its prop
    visibleRange,   \* VirtualizedGalleryGrid: visibleRange state
    rafPending,     \* VirtualizedGalleryGrid: rafId is not null
    frames,         \* animation-frame callbacks requested, not yet run or cancelled
    gridPhase,      \* "rendered" (effects not yet run) | "mounted" | "unmounted"
    scrollY,        \* window.scrollY
    innerWidth,     \* window.innerWidth
    innerHeight,    \* window.innerHeight
    focus,          \* document.activeElement
    focusTimer,     \* useFocusTrap: the initial-focus timeout is pending
    previousActive, \* useFocusTrap: previousActiveElementRef.current
    trapRef,        \* useFocusTrap: containerRef.current: "null" | "live" | "stale"
    trapListener,   \* node the Tab handler listens on: "none" | "live" | "stale"
    lightboxMounted,\* the Lightbox component is mounted
    effectIsOpen,   \* isOpen of the render whose effects ran last
    bodyOverflow,   \* document.body.style.overflow
    savedOverflow,  \* useLightbox: originalOverflow kept by the scroll effect
    pageOverflow,   \* body.style.overflow of the page before any lightbox opened
    ageGateOpen,    \* AgeVerificationContext: isModalOpen
    lastArg,        \* the argument the handler that ran last was called with
    calls,          \* callbacks and navigations the last step invoked
    touches,        \* touch surface: the points of the active touches (e.touches)
    now,            \* Date.now(), in ticks of TickMs
    touchState,     \* useSwipe: touchStateRef.current
    pinchState,     \* usePinchZoom: pinchStateRef.current
    scale,          \* usePinchZoom: scale
    pinches,        \* two-touch gestures begun so far
    gesture,        \* what the gesture in progress did since its first touch
    fullscreenElement, \* document.fullscreenElement is not null
    isFullscreen    \* useFullscreen: isFullscreen

vars == <<db, dbVersion, pages, status, fetchStatus, fetchDirection, newPages,
          request, response, failureCount, isOpen, currentIndex, triggerElement,
          restoreTimers, urlImageId, route, effectsPending, lastOp,
          imagesLength, visibleRange, rafPending, frames, gridPhase, scrollY,
          innerWidth, innerHeight, focus, focusTimer, previousActive, trapRef,
          trapListener, lightboxMounted, effectIsOpen, bodyOverflow,
          savedOverflow, pageOverflow, ageGateOpen, lastArg, calls, touches, now,
          touchState, pinchState, scale, pinches, gesture,
          fullscreenElement, isFullscreen>>

queryVars == <<pages, status, fetchStatus, fetchDirection, newPages, request,
               response, failureCount>>
lightboxVars == <<isOpen, currentIndex, triggerElement, restoreTimers>>
routerVars == <<urlImageId, route>>
\* What the gallery is given: the backend's images and the page's own style.
serverVars == <<db, dbVersion, pageOverflow, ageGateOpen>>
windowVars == <<imagesLength, visibleRange, rafPending, frames, gridPhase, scrollY,
                innerWidth, innerHeight>>
modalVars == <<focus, focusTimer, previousActive, trapRef, trapListener,
               lightboxMounted, effectIsOpen, bodyOverflow, savedOverflow>>
\* modalVars without the focus.
modalRest == <<focusTimer, previousActive, trapRef, trapListener,
               lightboxMounted, effectIsOpen, bodyOverflow, savedOverflow>>
logVars == <<lastArg, calls>>
gestureVars == <<touches, now, touchState, pinchState, scale, pinches, gesture,
                 fullscreenElement, isFullscreen>>
containerVars == <<serverVars, queryVars, lightboxVars, routerVars, effectsPending,
                   modalVars, logVars, gestureVars>>

(* -------------------- values derived on every render ------------------- *)
Images == FlattenGalleryImages(pages)

LastPage == pages[Len(pages)]

\* hasNextPage: the last page yields a next page parameter.
HasNextPage == pages # <<>> /\ GetNextPageParam(LastPage) # Undefined

IsFetchingNextPage == fetchStatus = "fetching" /\ fetchDirection = "forward"
IsLoading == status = "pending"
IsError == status = "error"

\* images[currentIndex] || null, as the image's position in Images (0: null).
CurrentImagePos == IF currentIndex + 1 \in 1..Len(Images) THEN currentIndex + 1 ELSE 0

NoRequest == <<>>
NoResponse == <<>>

\* Elements a caller may pass as the lightbox's trigger.
NoElement == "null"
TriggerElements == {NoElement, "item"}
\* The focusable elements of the lightbox modal, in document order.
FocusOrder == <<"closeButton", "fullscreenToggle", "previousButton", "nextButton">>
ModalElements == {FocusOrder[i] : i \in 1..Len(FocusOrder)}
\* document.activeElement when open() is called without a trigger: the
\* element holding the focus, the body when the focus is outside the page.
ActiveElement == IF focus = "outside" THEN "body" ELSE focus

\* The gallery (grid, lightbox, sentinel) is rendered: neither the loading
\* nor the error view is returned.
GalleryShown == ~IsLoading /\ ~IsError

\* The Lightbox renders its dialog: it is rendered, open and has an image.
ModalInDom == GalleryShown /\ isOpen /\ CurrentImagePos # 0

\* The grid item a visitor clicked is in the document.
ItemAttached == GalleryShown /\ Len(Images) > 0

\* document.contains(e)
Attached(e) ==
    \/ e = "body"
    \/ e = "item" /\ ItemAttached
    \/ e \in ModalElements /\ ModalInDom

\* e.focus(): the focus moves to e unless e is the body, which is not
\* focusable.
FocusOn(e, f) == IF e = "body" THEN f ELSE e

\* No argument, for handlers called without one.
NoArg == [kind |-> "none", value |-> 0]
\* navigate(path, {replace}) and the onClose callback, as entries of calls.
Navigate(r, id, rep) == [fn |-> "navigate", route |-> r, imageId |-> id, replace |-> rep]
OnCloseCall == [fn |-> "onClose", route |-> "", imageId |-> 0, replace |-> FALSE]

\* Values of body.style.overflow a page may start with.
Overflows == {"", "auto"}

(* ------------------- numbers of the gesture recognizers ---------------- *)
\* A non-negative JavaScript number: the fraction num/den in lowest terms,
\* Infinity (1/0) or NaN (0/0).
NaN == [num |-> 0, den |-> 0]
Infinity == [num |-> 1, den |-> 0]

\* n / d for integers n, d >= 0: x/0 is Infinity for x > 0 and NaN for x = 0.
Num(n, d) ==
    LET RECURSIVE Gcd(_, _)
        Gcd(a, b) == IF b = 0 THEN a ELSE Gcd(b, a % b)
    IN IF d = 0 THEN (IF n = 0 THEN NaN ELSE Infinity)
       ELSE [num |-> n \div Gcd(n, d), den |-> d \div Gcd(n, d)]

\* x < y in JavaScript: false when either is NaN.
Less(x, y) == x # NaN /\ y # NaN /\ x.num * y.den < y.num * x.den

\* x * y
Times(x, y) ==
    IF x = NaN \/ y = NaN THEN NaN ELSE Num(x.num * y.num, x.den * y.den)

\* Math.min and Math.max: NaN when either argument is NaN.
MathMin(x, y) == IF x = NaN \/ y = NaN THEN NaN ELSE IF Less(y, x) THEN y ELSE x
MathMax(x, y) == IF x = NaN \/ y = NaN THEN NaN ELSE IF Less(x, y) THEN y ELSE x

\* The options the Lightbox passes to usePinchZoom and to useSwipe.
PinchOptions == [minScale |-> Num(1, 1), maxScale |-> Num(5, 1),
                 initialScale |-> Num(1, 1)]
SwipeOptions == [threshold |-> 50, velocityThreshold |-> Num(3, 10)]

\* touchStateRef.current and pinchStateRef.current when null.
NoTouch == [startX |-> -1, startY |-> -1, startTime |-> -1,
            currentX |-> -1, currentY |-> -1]
NoPinch == [initialDistance |-> -1, initialScale |-> NaN]
\* No gesture is in progress.
NoGesture == [startX |-> -1, startY |-> -1, startTime |-> -1, maxTouches |-> 0,
              events |-> 0, pinchDistance |-> -1, pinchScale |-> NaN]

\* No touch is down, no gesture is remembered, the scale is initialScale.
GestureIdle ==
    /\ touches = <<>>
    /\ now = 0
    /\ touchState = NoTouch
    /\ pinchState = NoPinch
    /\ scale = PinchOptions.initialScale
    /\ pinches = 0
    /\ gesture = NoGesture
    /\ fullscreenElement = FALSE
    /\ isFullscreen = FALSE

\* Before the gallery is rendered: nothing of the modal exists.
ModalIdle ==
    /\ focus = "body"
    /\ focusTimer = FALSE
    /\ previousActive = "null"
    /\ trapRef = "null"
    /\ trapListener = "none"
    /\ lightboxMounted = FALSE
    /\ effectIsOpen = FALSE
    /\ savedOverflow = ""
    /\ lastArg = NoArg
    /\ calls = <<>>

\* A render is committed: an element that left the document loses the
\* focus to the body, and a node of the dialog that left it is stale.
FocusAfterCommit(f) ==
    IF (f \in ModalElements /\ ~ModalInDom') \/ (f = "item" /\ ~ItemAttached')
    THEN "body" ELSE f

Detach(r) == IF r = "live" /\ ~ModalInDom' THEN "stale" ELSE r

Commit ==
    /\ focus' = FocusAfterCommit(focus)
    /\ trapRef' = Detach(trapRef)
    /\ trapListener' = Detach(trapListener)
    /\ UNCHANGED <<focusTimer, previousActive, lightboxMounted, effectIsOpen,
                   bodyOverflow, savedOverflow>>

\* The virtualized grid is not mounted (fewer than 100 images).
WindowIdle ==
    /\ imagesLength = 0
    /\ visibleRange = [start |-> 0, end |-> 0]
    /\ rafPending = FALSE /\ frames = 0
    /\ gridPhase = "unmounted"
    /\ scrollY = 0
    /\ innerWidth = 1280
    /\ innerHeight = 900

Init ==
    /\ db \in {MakeDb(n) : n \in 0..MaxImages}
    /\ dbVersion = 0
    /\ pages = <<>>
    /\ status = "pending"
    /\ fetchStatus = "fetching"
    /\ fetchDirection = "initial"
    /\ newPages = <<>>
    /\ request = <<BuildRequest(PageLimit, Undefined)>>
    /\ response = NoResponse
    /\ failureCount = 0
    /\ isOpen = FALSE
    /\ currentIndex = 0
    /\ triggerElement = NoElement
    /\ restoreTimers = 0
    /\ urlImageId \in {0} \cup ImageIds
    /\ route = "gallery"
    /\ effectsPending = TRUE
    /\ lastOp = "mount"
    /\ WindowIdle
    /\ GestureIdle
    /\ ModalIdle /\ bodyOverflow = "" /\ pageOverflow = bodyOverflow
    /\ ageGateOpen = FALSE

(* ------------------------ infinite query (fetching) -------------------- *)
\* Start a fetch; a fetch already running is cancelled and its response
\* dropped.  Without data the query shows as pending again.
StartFetch(direction, cursor) ==
    /\ fetchStatus' = "fetching"
    /\ fetchDirection' = direction
    /\ newPages' = IF direction = "forward" THEN pages ELSE <<>>
    /\ request' = <<BuildRequest(PageLimit, cursor)>>
    /\ response' = NoResponse
    /\ failureCount' = 0
    /\ status' = IF pages = <<>> THEN "pending" ELSE status
    /\ pages' = pages

\* fetchNextPage(): the page parameter is getNextPageParam of the last page;
\* without one nothing is requested.
FetchNextPage ==
    IF HasNextPage THEN StartFetch("forward", GetNextPageParam(LastPage))
    ELSE UNCHANGED queryVars

\* The cursor the running fetch starts from (again, when it is retried).
FirstCursor == IF fetchDirection = "forward" THEN GetNextPageParam(LastPage)
               ELSE Undefined

\* The backend answers the running request, or the request fails.
ServerRespond ==
    /\ UNCHANGED <<windowVars, modalVars, gestureVars>>
    /\ route = "gallery"
    /\ fetchStatus = "fetching" /\ response = NoResponse
    /\ \E st \in {HttpOk} \cup ErrorStatuses :
       \E detail \in Details :
          /\ (st \in {HttpOk, NetworkFailure} => detail = NoDetail)
          /\ response' = <<[status |-> st, detail |-> detail,
                            body |-> IF st = HttpOk
                                     THEN <<ServerPage(db, request[1])>>
                                     ELSE <<>>]>>
    /\ lastOp' = "respond"
    /\ lastArg' = NoArg /\ calls' = <<>>
    /\ UNCHANGED <<pages, status, fetchStatus, fetchDirection, newPages, request,
                   failureCount, serverVars, lightboxVars, routerVars,
                   effectsPending>>

\* fetchGalleryImages resolves with the page: the fetch collects it; a
\* refetch goes on to the next page it had, otherwise the data is stored.
ReceivePage(page) ==
    LET collected == Append(newPages, page)
        goOn == /\ fetchDirection = "refetch"
                /\ Len(collected) < Len(pages)
                /\ GetNextPageParam(page) # Undefined
    IN IF goOn
       THEN /\ newPages' = collected
            /\ request' = <<BuildRequest(PageLimit, GetNextPageParam(page))>>
            /\ response' = NoResponse
            /\ UNCHANGED <<pages, status, fetchStatus, fetchDirection, failureCount>>
       ELSE /\ pages' = collected
            /\ status' = "success"
            /\ fetchStatus' = "idle"
            /\ newPages' = <<>>
            /\ request' = NoRequest
            /\ response' = NoResponse
            /\ failureCount' = 0
            /\ UNCHANGED fetchDirection

\* Mutant of ReceiveError: a failed request is stored as an empty last page.
ReceiveErrorAsEmptyPage(st, detail) ==
    /\ pages' = Append(pages, [images |-> <<>>,
                               pagination |-> [has_more |-> FALSE,
                                               next_cursor |-> Undefined,
                                               total_count |-> 0]])
    /\ failureCount' = failureCount + 1
    /\ status' = "error"
    /\ fetchStatus' = "idle"
    /\ newPages' = <<>>
    /\ request' = NoRequest
    /\ response' = NoResponse
    /\ UNCHANGED fetchDirection

\* fetchGalleryImages throws: the retry option decides between another
\* attempt of the same fetch and the error state; data.pages is kept.
ReceiveError(st, detail) ==
    IF ShouldRetry(failureCount, ErrorMessage(st, detail))
    THEN /\ failureCount' = failureCount + 1
         /\ newPages' = IF fetchDirection = "forward" THEN pages ELSE <<>>
         /\ request' = <<BuildRequest(PageLimit, FirstCursor)>>
         /\ response' = NoResponse
         /\ UNCHANGED <<pages, status, fetchStatus, fetchDirection>>
    ELSE /\ failureCount' = failureCount + 1
         /\ status' = "error"
         /\ fetchStatus' = "idle"
         /\ newPages' = <<>>
         /\ request' = NoRequest
         /\ response' = NoResponse
         /\ UNCHANGED <<pages, fetchDirection>>

ClientReceive ==
    /\ UNCHANGED <<windowVars, gestureVars>>
    /\ route = "gallery"
    /\ response # NoResponse
    /\ IF response[1].status = HttpOk
       THEN ReceivePage(response[1].body[1])
       ELSE ReceiveError(response[1].status, response[1].detail)
    /\ effectsPending' = TRUE
    /\ lastOp' = IF response[1].status = HttpOk THEN "page" ELSE "fetchError"
    /\ lastArg' = NoArg /\ calls' = <<>>
    /\ UNCHANGED <<serverVars, lightboxVars, routerVars>>
    /\ Commit

\* The backend's ordering changes between two requests.
ServerReorder ==
    /\ UNCHANGED <<windowVars, modalVars, gestureVars>>
    /\ route = "gallery"
    /\ dbVersion < MaxReorders
    /\ Len(db) >= 2
    /\ db' = ReorderDb(db)
    /\ dbVersion' = dbVersion + 1
    /\ UNCHANGED <<pageOverflow, ageGateOpen>>
    /\ lastOp' = "reorder"
    /\ lastArg' = NoArg /\ calls' = <<>>
    /\ UNCHANGED <<queryVars, lightboxVars, routerVars, effectsPending>>

(* --------------------------- useLightbox ------------------------------- *)
\* open(imageOrIndex, triggerElement) once the index is resolved: the
\* trigger is remembered, or document.activeElement when none is passed.
LbOpenFrom(index, trigger, active) ==
    /\ triggerElement' = IF trigger # NoElement THEN trigger ELSE active
    /\ currentIndex' = index
    /\ isOpen' = TRUE
    /\ UNCHANGED restoreTimers

LbOpen(index, trigger) == LbOpenFrom(index, trigger, ActiveElement)

\* Mutant of LbClose: the position is reset and onClose is invoked twice.
LbCloseResetting(callback) ==
    /\ isOpen' = FALSE
    /\ restoreTimers' = restoreTimers + 1
    /\ currentIndex' = 0
    /\ calls' = <<OnCloseCall, OnCloseCall>> \o callback
    /\ UNCHANGED triggerElement

\* close(): closes, schedules the focus restoration (setTimeout 0) and
\* invokes onClose; callback is what onClose and the caller then invoke.
LbClose(callback) ==
    /\ isOpen' = FALSE
    /\ restoreTimers' = restoreTimers + 1
    /\ calls' = <<OnCloseCall>> \o callback
    /\ UNCHANGED <<currentIndex, triggerElement>>

LbGoToNext ==
    /\ currentIndex' = IF Len(Images) = 0 THEN currentIndex
                       ELSE GoToNextIndex(currentIndex, Len(Images))
    /\ UNCHANGED <<isOpen, triggerElement, restoreTimers>>

LbGoToPrevious ==
    /\ currentIndex' = IF Len(Images) = 0 THEN currentIndex
                       ELSE GoToPreviousIndex(currentIndex, Len(Images))
    /\ UNCHANGED <<isOpen, triggerElement, restoreTimers>>

\* Mutant of RestoreFocusTimer: the timeout clears the reference and leaves
\* the focus where it is.
RestoreFocusTimerNoFocus ==
    /\ UNCHANGED <<windowVars, modalVars, gestureVars>>
    /\ route = "gallery"
    /\ restoreTimers > 0
    /\ restoreTimers' = restoreTimers - 1
    /\ triggerElement' = NoElement
    /\ lastOp' = "restoreFocus"
    /\ lastArg' = NoArg /\ calls' = <<>>
    /\ UNCHANGED <<isOpen, currentIndex, serverVars, queryVars, routerVars,
                   effectsPending>>

\* The timeout scheduled by close() runs: focus goes back to the trigger
\* and the reference is cleared.
RestoreFocusTimer ==
    /\ UNCHANGED <<windowVars, modalRest, gestureVars>>
    /\ route = "gallery"
    /\ restoreTimers > 0
    /\ restoreTimers' = restoreTimers - 1
    /\ focus' = IF triggerElement # NoElement /\ Attached(triggerElement)
                THEN FocusOn(triggerElement, focus) ELSE focus
    /\ triggerElement' = NoElement
    /\ lastOp' = "restoreFocus"
    /\ lastArg' = NoArg /\ calls' = <<>>
    /\ UNCHANGED <<isOpen, currentIndex, serverVars, queryVars, routerVars,
                   effectsPending>>

(* ---------------- the hook driven directly by its callers -------------- *)
\* Index arguments a caller may pass.
Indexes == -1..(MaxImages + 1)

ApiOpenIndex ==
    /\ UNCHANGED <<windowVars, modalVars, gestureVars>>
    /\ \E i \in Indexes : \E t \in TriggerElements :
        /\ LbOpen(OpenIndexResult(Images, i), t)
        /\ lastOp' = "open"
        /\ lastArg' = [kind |-> "index", value |-> i] /\ calls' = <<>>
        /\ UNCHANGED <<serverVars, queryVars, routerVars, effectsPending>>

ApiOpenImage ==
    /\ UNCHANGED <<windowVars, modalVars, gestureVars>>
    /\ \E id \in ImageIds : \E t \in TriggerElements :
        /\ LbOpen(OpenImageResult(Images, id), t)
        /\ lastOp' = "open"
        /\ lastArg' = [kind |-> "image", value |-> id] /\ calls' = <<>>
        /\ UNCHANGED <<serverVars, queryVars, routerVars, effectsPending>>

ApiGoTo ==
    /\ UNCHANGED <<windowVars, modalVars, gestureVars>>
    /\ \E i \in Indexes :
        /\ currentIndex' = GoToResult(Images, i)
        /\ lastOp' = "goTo"
        /\ lastArg' = [kind |-> "index", value |-> i] /\ calls' = <<>>
        /\ UNCHANGED <<isOpen, triggerElement, restoreTimers, serverVars,
                       queryVars, routerVars, effectsPending>>

ApiGoToNext ==
    /\ UNCHANGED <<windowVars, modalVars, gestureVars>>
    /\ LbGoToNext
    /\ lastOp' = "goToNext"
    /\ lastArg' = NoArg /\ calls' = <<>>
    /\ UNCHANGED <<serverVars, queryVars, routerVars, effectsPending>>

ApiGoToPrevious ==
    /\ UNCHANGED <<windowVars, modalVars, gestureVars>>
    /\ LbGoToPrevious
    /\ lastOp' = "goToPrevious"
    /\ lastArg' = NoArg /\ calls' = <<>>
    /\ UNCHANGED <<serverVars, queryVars, routerVars, effectsPending>>

ApiClose ==
    /\ UNCHANGED <<windowVars, modalVars, gestureVars>>
    /\ restoreTimers < MaxTimers
    /\ LbClose(<<>>)
    /\ lastOp' = "close"
    /\ lastArg' = NoArg
    /\ UNCHANGED <<serverVars, queryVars, routerVars, effectsPending>>

\* The images prop grows by the next page of the gallery.
ImagesGrow ==
    /\ UNCHANGED <<windowVars, modalVars, gestureVars>>
    /\ pages = <<>> \/ HasNextPage
    /\ pages' = Append(pages, ServerPage(db, BuildRequest(PageLimit,
                     IF pages = <<>> THEN Undefined
                     ELSE GetNextPageParam(LastPage))))
    /\ status' = "success"
    /\ lastOp' = "page"
    /\ lastArg' = NoArg /\ calls' = <<>>
    /\ UNCHANGED <<fetchStatus, fetchDirection, newPages, request, response,
                   failureCount, serverVars, lightboxVars, routerVars,
                   effectsPending>>

InitLightbox ==
    /\ db \in {MakeDb(n) : n \in 0..MaxImages}
    /\ dbVersion = 0
    /\ pages = <<>>
    /\ status = "pending"
    /\ fetchStatus = "idle"
    /\ fetchDirection = "initial"
    /\ newPages = <<>>
    /\ request = NoRequest
    /\ response = NoResponse
    /\ failureCount = 0
    /\ isOpen = FALSE
    /\ currentIndex = 0
    /\ triggerElement = NoElement
    /\ restoreTimers = 0
    /\ urlImageId = 0
    /\ route = "gallery"
    /\ effectsPending = FALSE
    /\ lastOp = "mount"
    /\ WindowIdle
    /\ GestureIdle
    /\ ModalIdle /\ bodyOverflow = "" /\ pageOverflow = bodyOverflow
    /\ ageGateOpen = FALSE

NextLightbox ==
    \/ ApiOpenIndex
    \/ ApiOpenImage
    \/ ApiGoTo
    \/ ApiGoToNext
    \/ ApiGoToPrevious
    \/ ApiClose
    \/ RestoreFocusTimer
    \/ ImagesGrow

SpecLightbox == InitLightbox /\ [][NextLightbox]_vars

(* -------------------------- GalleryContainer --------------------------- *)
\* handleImageClick: open the lightbox at the clicked image and push
\* /gallery/{id}.
HandleImageClick ==
    /\ UNCHANGED <<windowVars, modalRest, gestureVars>>
    /\ route = "gallery" /\ ~effectsPending
    /\ GalleryShown /\ ~isOpen /\ ~ageGateOpen
    /\ \E pos \in 1..Len(Images) :
          /\ LbOpen(OpenImageResult(Images, Images[pos].id), "item")
          /\ urlImageId' = Images[pos].id
          /\ lastArg' = [kind |-> "image", value |-> Images[pos].id]
          /\ calls' = <<Navigate("gallery", Images[pos].id, FALSE)>>
    /\ route' = route
    /\ effectsPending' = TRUE
    /\ lastOp' = "open"
    /\ focus' = "item"
    /\ UNCHANGED <<serverVars, queryVars>>

\* Mutant of LightboxOnClose: the lightbox closes and the URL is left alone.
LightboxOnCloseKeepingUrl ==
    /\ UNCHANGED <<windowVars, gestureVars>>
    /\ route = "gallery" /\ ~effectsPending
    /\ GalleryShown /\ isOpen
    /\ restoreTimers < MaxTimers
    /\ LbClose(<<>>)
    /\ effectsPending' = TRUE
    /\ lastOp' = "close"
    /\ lastArg' = NoArg
    /\ UNCHANGED <<serverVars, queryVars, routerVars>>
    /\ Commit

\* The Lightbox's onClose: lightbox.close() (whose onClose callback is
\* handleLightboxClose), then the same navigation to /gallery once more.
LightboxOnClose ==
    /\ UNCHANGED <<windowVars, gestureVars>>
    /\ route = "gallery" /\ ~effectsPending
    /\ GalleryShown /\ isOpen
    /\ restoreTimers < MaxTimers
    /\ LET toGallery == IF urlImageId # 0 THEN <<Navigate("gallery", 0, TRUE)>>
                         ELSE <<>>
       IN LbClose(toGallery \o toGallery)
    /\ urlImageId' = 0
    /\ route' = route
    /\ effectsPending' = TRUE
    /\ lastOp' = "close"
    /\ lastArg' = NoArg
    /\ UNCHANGED <<serverVars, queryVars>>
    /\ Commit

LightboxOnNext ==
    /\ UNCHANGED <<windowVars, modalVars, gestureVars>>
    /\ route = "gallery" /\ ~effectsPending
    /\ GalleryShown /\ isOpen
    /\ LbGoToNext
    /\ effectsPending' = TRUE
    /\ lastOp' = "goToNext"
    /\ lastArg' = NoArg /\ calls' = <<>>
    /\ UNCHANGED <<serverVars, queryVars, routerVars>>

LightboxOnPrevious ==
    /\ UNCHANGED <<windowVars, modalVars, gestureVars>>
    /\ route = "gallery" /\ ~effectsPending
    /\ GalleryShown /\ isOpen
    /\ LbGoToPrevious
    /\ effectsPending' = TRUE
    /\ lastOp' = "goToPrevious"
    /\ lastArg' = NoArg /\ calls' = <<>>
    /\ UNCHANGED <<serverVars, queryVars, routerVars>>

\* The observer's callback without the test of isLoading.
SentinelIntersectUnguarded ==
    /\ UNCHANGED <<windowVars, modalVars, gestureVars>>
    /\ route = "gallery" /\ ~effectsPending
    /\ GalleryShown /\ HasNextPage
    /\ HasNextPage
    /\ FetchNextPage
    /\ effectsPending' = TRUE
    /\ lastOp' = "loadMore"
    /\ lastArg' = NoArg /\ calls' = <<>>
    /\ UNCHANGED <<serverVars, lightboxVars, routerVars>>

\* useInfiniteScroll: the sentinel (rendered while hasNextPage) intersects
\* the viewport; more is loaded unless a next page is being fetched.
SentinelIntersect ==
    /\ UNCHANGED <<windowVars, modalVars, gestureVars>>
    /\ route = "gallery" /\ ~effectsPending
    /\ GalleryShown /\ HasNextPage
    /\ HasNextPage /\ ~IsFetchingNextPage
    /\ FetchNextPage
    /\ effectsPending' = TRUE
    /\ lastOp' = "loadMore"
    /\ lastArg' = NoArg /\ calls' = <<>>
    /\ UNCHANGED <<serverVars, lightboxVars, routerVars>>

\* "Try Again" in the error view: refetch().
Refetch ==
    /\ UNCHANGED <<windowVars, modalVars, gestureVars>>
    /\ route = "gallery" /\ ~effectsPending
    /\ IsError /\ fetchStatus = "idle"
    /\ StartFetch("refetch", Undefined)
    /\ effectsPending' = TRUE
    /\ lastOp' = "refetch"
    /\ lastArg' = NoArg /\ calls' = <<>>
    /\ UNCHANGED <<serverVars, lightboxVars, routerVars>>

(* ------ the two effects of GalleryContainer, run after each render ----- *)
\* initialImageId || parseInt(params.imageId): 0 when the URL names none.
TargetImageId == urlImageId

\* The deep-link effect gets past its early returns.
DeepLinkActive == TargetImageId # 0 /\ ~IsLoading /\ Len(Images) # 0

DeepLinkIndex == FindIndex(Images, TargetImageId)

\* What the deep-link effect does with the committed render's values.
DeepLinkOutcome ==
    IF ~DeepLinkActive THEN "none"
    ELSE IF DeepLinkIndex # -1 THEN "open"
    ELSE IF HasNextPage /\ ~IsFetchingNextPage THEN "fetch"
    ELSE "notfound"

\* Mutant of UrlSyncNeeded: the URL is only filled in, never corrected.
UrlSyncOnlyWithoutId ==
    /\ isOpen /\ CurrentImagePos # 0
    /\ urlImageId = 0

\* The URL effect replaces the URL when the open image's id differs from it.
UrlSyncNeeded ==
    /\ isOpen /\ CurrentImagePos # 0
    /\ urlImageId # Images[CurrentImagePos].id

\* Effects with the dependency isOpen (or enabled) of a component that was
\* mounted when effects ran last are cleaned up when isOpen turned false or
\* the component unmounts, and set up when it turned true or on mount.
LightboxCleanup == lightboxMounted /\ effectIsOpen /\ ~(GalleryShown /\ isOpen)
LightboxSetup == GalleryShown /\ isOpen /\ ~(lightboxMounted /\ effectIsOpen)
HookCleanup == effectIsOpen /\ ~isOpen
HookSetup == isOpen /\ ~effectIsOpen

\* useFocusTrap's cleanup: focus returns to the element that had it when
\* the trap was activated, if that is still in the document.
FocusAfterCleanup ==
    IF LightboxCleanup /\ previousActive # "null" /\ Attached(previousActive)
    THEN FocusOn(previousActive, focus) ELSE focus

\* body.style.overflow after the cleanups (the Lightbox's, then the hook's)
\* and after the Lightbox's effect has run.
OverflowAfterCleanup ==
    IF HookCleanup THEN savedOverflow
    ELSE IF LightboxCleanup THEN "" ELSE bodyOverflow

OverflowAfterLightbox == IF LightboxSetup THEN "hidden" ELSE OverflowAfterCleanup

\* The effects of the Lightbox (focus trap, ref wiring, scroll lock) and of
\* useLightbox (scroll lock) for the committed render: children first, all
\* cleanups before all effects.
ModalEffects ==
    /\ focus' = FocusAfterCleanup
    /\ focusTimer' = IF LightboxSetup THEN TRUE
                     ELSE IF LightboxCleanup THEN FALSE ELSE focusTimer
    /\ previousActive' =
          IF LightboxSetup
          THEN (IF FocusAfterCleanup = "outside" THEN "body" ELSE FocusAfterCleanup)
          ELSE IF ~GalleryShown THEN "null" ELSE previousActive
    /\ trapListener' =
          IF LightboxSetup
          THEN (IF lightboxMounted THEN (IF trapRef = "null" THEN "none" ELSE trapRef)
                ELSE "none")
          ELSE IF LightboxCleanup \/ ~GalleryShown THEN "none" ELSE trapListener
    /\ trapRef' = IF ~GalleryShown THEN "null"
                  ELSE IF ~lightboxMounted
                  THEN (IF ModalInDom THEN "live" ELSE "null")
                  ELSE trapRef
    /\ savedOverflow' = IF HookSetup THEN OverflowAfterLightbox ELSE savedOverflow
    /\ bodyOverflow' = IF HookSetup THEN "hidden" ELSE OverflowAfterLightbox
    /\ lightboxMounted' = GalleryShown
    /\ effectIsOpen' = isOpen

RunEffects ==
    /\ UNCHANGED <<windowVars, gestureVars>>
    /\ route = "gallery" /\ effectsPending
    /\ ModalEffects
    /\ IF DeepLinkOutcome = "open"
       THEN LbOpenFrom(OpenImageResult(Images, Images[DeepLinkIndex + 1].id), NoElement,
                       IF FocusAfterCleanup = "outside" THEN "body" ELSE FocusAfterCleanup)
       ELSE UNCHANGED lightboxVars
    /\ IF DeepLinkOutcome = "fetch" THEN FetchNextPage ELSE UNCHANGED queryVars
    /\ IF UrlSyncNeeded
       THEN urlImageId' = Images[CurrentImagePos].id /\ route' = "gallery"
       ELSE IF DeepLinkOutcome = "notfound"
       THEN urlImageId' = 0 /\ route' = "notfound"
       ELSE UNCHANGED routerVars
    /\ calls' = (IF DeepLinkOutcome = "notfound"
                 THEN <<Navigate("notfound", 0, TRUE)>> ELSE <<>>)
                \o (IF UrlSyncNeeded
                    THEN <<Navigate("gallery", Images[CurrentImagePos].id, TRUE)>>
                    ELSE <<>>)
    /\ effectsPending' =
          (<<isOpen', currentIndex', fetchStatus', fetchDirection', urlImageId', route'>>
             # <<isOpen, currentIndex, fetchStatus, fetchDirection, urlImageId, route>>)
    /\ lastOp' = "effects"
    /\ lastArg' = NoArg
    /\ UNCHANGED serverVars

\* useFocusTrap's timeout runs: the close button gets the focus.  Timeouts
\* of equal delay run in the order they were set, and a pending focus
\* restoration was always set before this one.
FocusTrapTimer ==
    /\ UNCHANGED <<windowVars, gestureVars>>
    /\ route = "gallery"
    /\ focusTimer /\ restoreTimers = 0
    /\ focusTimer' = FALSE
    /\ focus' = IF ModalInDom THEN FocusOrder[1] ELSE focus
    /\ lastOp' = "focusTimer"
    /\ lastArg' = NoArg /\ calls' = <<>>
    /\ UNCHANGED <<previousActive, trapRef, trapListener, lightboxMounted,
                   effectIsOpen, bodyOverflow, savedOverflow, serverVars,
                   queryVars, lightboxVars, routerVars, effectsPending>>

\* Position of a dialog element in the focus order (0: not in the dialog).
FocusPos(f) == IF f \in ModalElements
               THEN CHOOSE i \in 1..Len(FocusOrder) : FocusOrder[i] = f ELSE 0

\* Tab with the focus in the dialog: the handler of useFocusTrap, when it
\* listens on the dialog, wraps from the last element to the first;
\* otherwise the browser moves the focus on, past the last element out of
\* the dialog.
PressTab ==
    /\ UNCHANGED <<windowVars, modalRest, gestureVars>>
    /\ route = "gallery" /\ ~effectsPending
    /\ ModalInDom /\ focus \in ModalElements
    /\ focus' = IF FocusPos(focus) = Len(FocusOrder)
                THEN (IF trapListener = "live" THEN FocusOrder[1] ELSE "outside")
                ELSE FocusOrder[FocusPos(focus) + 1]
    /\ lastOp' = "tab"
    /\ lastArg' = NoArg /\ calls' = <<>>
    /\ UNCHANGED <<serverVars, queryVars, lightboxVars, routerVars, effectsPending>>

PressShiftTab ==
    /\ UNCHANGED <<windowVars, modalRest, gestureVars>>
    /\ route = "gallery" /\ ~effectsPending
    /\ ModalInDom /\ focus \in ModalElements
    /\ focus' = IF FocusPos(focus) = 1
                THEN (IF trapListener = "live" THEN FocusOrder[Len(FocusOrder)]
                      ELSE "outside")
                ELSE FocusOrder[FocusPos(focus) - 1]
    /\ lastOp' = "shiftTab"
    /\ lastArg' = NoArg /\ calls' = <<>>
    /\ UNCHANGED <<serverVars, queryVars, lightboxVars, routerVars, effectsPending>>

Next ==
    \/ ServerRespond
    \/ ClientReceive
    \/ ServerReorder
    \/ HandleImageClick
    \/ LightboxOnClose
    \/ LightboxOnNext
    \/ LightboxOnPrevious
    \/ SentinelIntersect
    \/ Refetch
    \/ RunEffects
    \/ RestoreFocusTimer
    \/ FocusTrapTimer

Spec == Init /\ [][Next]_vars

\* The gallery when every response arrives and every effect and timeout
\* runs: a fetch is answered, its answer handled, effects and timeouts run.
SpecDeepLink ==
    /\ Init /\ [][Next]_vars
    /\ WF_vars(ServerRespond) /\ WF_vars(ClientReceive) /\ WF_vars(RunEffects)
    /\ WF_vars(RestoreFocusTimer) /\ WF_vars(FocusTrapTimer)

(* ------------- the lightbox dialog of a gallery of one page ------------ *)
\* Keys the Lightbox's keydown handler looks at.
Keys == {"Escape", "ArrowLeft", "ArrowRight"}

\* The keyboard effect of the Lightbox ran with isOpen true: handleKeyDown
\* listens on window.
KeyboardAttached == lightboxMounted /\ effectIsOpen

\* What the touch recognizers keep.
touchVars == <<touches, now, touchState, pinchState, scale, pinches, gesture>>

\* Mutant of KeyDown: Escape closes the lightbox whether fullscreen or not.
KeyDownEscapeCloses ==
    /\ UNCHANGED <<windowVars, touchVars, isFullscreen, serverVars, queryVars>>
    /\ route = "gallery" /\ ~effectsPending
    /\ \E key \in Keys :
        /\ lastArg' = [kind |-> "key", value |-> key]
        /\ IF ~KeyboardAttached
           THEN /\ lastOp' = "keydown" /\ calls' = <<>>
                /\ UNCHANGED <<lightboxVars, routerVars, effectsPending, modalVars,
                               fullscreenElement>>
           ELSE IF key = "Escape"
           THEN /\ restoreTimers < MaxTimers
                /\ LET toGallery == IF urlImageId # 0
                                    THEN <<Navigate("gallery", 0, TRUE)>> ELSE <<>>
                   IN LbClose(toGallery \o toGallery)
                /\ urlImageId' = 0 /\ route' = route
                /\ effectsPending' = TRUE
                /\ lastOp' = "close"
                /\ Commit
                /\ UNCHANGED fullscreenElement
           ELSE /\ IF key = "ArrowLeft" THEN LbGoToPrevious ELSE LbGoToNext
                /\ effectsPending' = TRUE
                /\ lastOp' = IF key = "ArrowLeft" THEN "goToPrevious" ELSE "goToNext"
                /\ calls' = <<>>
                /\ UNCHANGED <<routerVars, modalVars, fullscreenElement>>

\* A key goes down.  The Lightbox's handleKeyDown, if it listens: Escape
\* leaves fullscreen when isFullscreen and calls onClose otherwise,
\* ArrowLeft calls onPrevious, ArrowRight calls onNext.
KeyDown ==
    /\ UNCHANGED <<windowVars, touchVars, isFullscreen, serverVars, queryVars>>
    /\ route = "gallery" /\ ~effectsPending
    /\ \E key \in Keys :
        /\ lastArg' = [kind |-> "key", value |-> key]
        /\ IF ~KeyboardAttached
           THEN /\ lastOp' = "keydown" /\ calls' = <<>>
                /\ UNCHANGED <<lightboxVars, routerVars, effectsPending, modalVars,
                               fullscreenElement>>
           ELSE IF key = "Escape" /\ isFullscreen
           THEN /\ fullscreenElement' = FALSE
                /\ lastOp' = "toggleFullscreen" /\ calls' = <<>>
                /\ UNCHANGED <<lightboxVars, routerVars, effectsPending, modalVars>>
           ELSE IF key = "Escape"
           THEN /\ restoreTimers < MaxTimers
                /\ LET toGallery == IF urlImageId # 0
                                    THEN <<Navigate("gallery", 0, TRUE)>> ELSE <<>>
                   IN LbClose(toGallery \o toGallery)
                /\ urlImageId' = 0 /\ route' = route
                /\ effectsPending' = TRUE
                /\ lastOp' = "close"
                /\ Commit
                /\ UNCHANGED fullscreenElement
           ELSE /\ IF key = "ArrowLeft" THEN LbGoToPrevious ELSE LbGoToNext
                /\ effectsPending' = TRUE
                /\ lastOp' = IF key = "ArrowLeft" THEN "goToPrevious" ELSE "goToNext"
                /\ calls' = <<>>
                /\ UNCHANGED <<routerVars, modalVars, fullscreenElement>>

\* The fullscreen button of the dialog: toggleFullscreen() leaves fullscreen
\* when isFullscreen and requests it otherwise.
ToggleFullscreen ==
    /\ route = "gallery" /\ ~effectsPending
    /\ ModalInDom
    /\ fullscreenElement' = ~isFullscreen
    /\ lastOp' = "toggleFullscreen"
    /\ lastArg' = NoArg /\ calls' = <<>>
    /\ UNCHANGED <<windowVars, touchVars, isFullscreen, serverVars, queryVars,
                   lightboxVars, routerVars, effectsPending, modalVars>>

\* The document's fullscreenchange event reaches useFullscreen.
FullscreenChange ==
    /\ route = "gallery" /\ lightboxMounted
    /\ isFullscreen # fullscreenElement
    /\ isFullscreen' = fullscreenElement
    /\ effectsPending' = TRUE
    /\ lastOp' = "fullscreenchange"
    /\ lastArg' = NoArg /\ calls' = <<>>
    /\ UNCHANGED <<windowVars, touchVars, fullscreenElement, serverVars, queryVars,
                   lightboxVars, routerVars, modalVars>>

\* The first page has arrived and holds the whole gallery; its render is
\* committed and its effects have not run yet.
InitModal ==
    /\ db \in {MakeDb(n) : n \in 1..MaxImages}
    /\ dbVersion = 0
    /\ pages = <<ServerPage(db, BuildRequest(MaxImages, Undefined))>>
    /\ status = "success"
    /\ fetchStatus = "idle"
    /\ fetchDirection = "initial"
    /\ newPages = <<>>
    /\ request = NoRequest
    /\ response = NoResponse
    /\ failureCount = 0
    /\ isOpen = FALSE
    /\ currentIndex = 0
    /\ triggerElement = NoElement
    /\ restoreTimers = 0
    /\ urlImageId \in {0} \cup ImageIds
    /\ route = "gallery"
    /\ effectsPending = TRUE
    /\ lastOp = "page"
    /\ WindowIdle
    /\ GestureIdle
    /\ ModalIdle /\ bodyOverflow \in Overflows /\ pageOverflow = bodyOverflow
    /\ ageGateOpen = FALSE

NextModal ==
    \/ HandleImageClick
    \/ LightboxOnClose
    \/ LightboxOnNext
    \/ LightboxOnPrevious
    \/ RunEffects
    \/ RestoreFocusTimer
    \/ FocusTrapTimer
    \/ PressTab
    \/ PressShiftTab
    \/ KeyDown
    \/ ToggleFullscreen
    \/ FullscreenChange

SpecModal == InitModal /\ [][NextModal]_vars

(* ------------------- the age gate above the gallery -------------------- *)
\* verifyAge: the age gate closes and the clean-up of its scroll-lock effect
\* clears body.style.overflow.
VerifyAge ==
    /\ UNCHANGED <<windowVars, gestureVars, queryVars, lightboxVars, routerVars>>
    /\ route = "gallery" /\ ~effectsPending
    /\ ageGateOpen
    /\ ageGateOpen' = FALSE
    /\ bodyOverflow' = ""
    /\ lastOp' = "verifyAge"
    /\ lastArg' = NoArg /\ calls' = <<>>
    /\ UNCHANGED <<db, dbVersion, pageOverflow, focus, focusTimer, previousActive,
                   trapRef, trapListener, lightboxMounted, effectIsOpen,
                   savedOverflow, effectsPending>>

\* The gallery page is loaded by a visitor who has not verified the age yet:
\* the age gate is open and its effect has suppressed body scroll.
InitScrollLock ==
    /\ db \in {MakeDb(n) : n \in 1..MaxImages}
    /\ dbVersion = 0
    /\ pages = <<ServerPage(db, BuildRequest(MaxImages, Undefined))>>
    /\ status = "success"
    /\ fetchStatus = "idle"
    /\ fetchDirection = "initial"
    /\ newPages = <<>>
    /\ request = NoRequest
    /\ response = NoResponse
    /\ failureCount = 0
    /\ isOpen = FALSE
    /\ currentIndex = 0
    /\ triggerElement = NoElement
    /\ restoreTimers = 0
    /\ urlImageId \in {0} \cup ImageIds
    /\ route = "gallery"
    /\ effectsPending = TRUE
    /\ lastOp = "page"
    /\ WindowIdle
    /\ GestureIdle
    /\ ModalIdle /\ pageOverflow \in Overflows
    /\ ageGateOpen = TRUE /\ bodyOverflow = "hidden"

NextScrollLock == NextModal \/ VerifyAge

SpecScrollLock == InitScrollLock /\ [][NextScrollLock]_vars

(* ----------------------- VirtualizedGalleryGrid ------------------------ *)
VIEWPORT_BUFFER == 1000
VIRTUAL_SCROLL_THRESHOLD == 100
\* itemHeight, the approximate height of an item.
ItemHeight == 300
\* Items a sentinel adds to the range.
SentinelStep == 20
\* end of the range the component is constructed with.
InitialEnd == 50

\* Viewport sizes a visitor may have; the widths give 1, 2 and 3 columns.
Widths == {768, 1024, 1280}
Heights == {600, 900}
\* Collection growths the grid may see after it is mounted.
MaxGrowths == 1
\* Scroll offsets are sampled every ScrollStep pixels, up to MaxScrollSteps
\* of them.
ScrollStep == 1500
MaxScrollSteps == 7

CeilDiv(a, b) == (a + b - 1) \div b
Abs(a) == IF a < 0 THEN -a ELSE a

ItemsPerRow(w) == IF w > 1024 THEN 3 ELSE IF w > 768 THEN 2 ELSE 1
RowsInViewport(h) == CeilDiv(h + VIEWPORT_BUFFER * 2, ItemHeight)
VisibleCount(w, h) == RowsInViewport(h) * ItemsPerRow(w)

\* The range the first effect sets (on mount and whenever images.length
\* changes).
InitialRange(len, w, h) ==
    [start |-> 0, end |-> Min(len, VisibleCount(w, h) * 2)]

\* The range the animation-frame callback computes.
ScrollRange(len, w, h, y) ==
    LET rowsAbove == y \div ItemHeight
        start == Max(0, (rowsAbove * ItemsPerRow(w)) - ItemsPerRow(w))
    IN [start |-> start,
        end |-> Min(len, start + VisibleCount(w, h) + ItemsPerRow(w) * 2)]

\* setVisibleRange(prev => ...): only a significant change is taken.
UpdateRange(prev, new, w) ==
    IF \/ Abs(prev.start - new.start) > ItemsPerRow(w)
       \/ Abs(prev.end - new.end) > ItemsPerRow(w)
    THEN new ELSE prev

\* Layout of the grid: top spacer, the mounted rows, bottom spacer.
TopSpacerHeight(r) == r.start * ItemHeight
BottomSpacerHeight(r, len) == Max(0, (len - r.end) * ItemHeight)
ContentHeight(r, w) == CeilDiv(Max(0, r.end - r.start), ItemsPerRow(w)) * ItemHeight
DocHeight(r, len, w) ==
    TopSpacerHeight(r) + ContentHeight(r, w) + BottomSpacerHeight(r, len)
MaxScrollY(r, len, w, h) == Max(0, DocHeight(r, len, w) - h)

\* A sentinel intersects the viewport widened by the root margin.
TopSentinelIntersecting(r, y) ==
    r.start > 0 /\ TopSpacerHeight(r) > y - VIEWPORT_BUFFER
BottomSentinelIntersecting(r, len, w, h, y) ==
    /\ r.end < len
    /\ TopSpacerHeight(r) + ContentHeight(r, w) < y + h + VIEWPORT_BUFFER

\* After a layout change the browser keeps scrollY within the document; a
\* changed scrollY is a scroll event, whose handler requests a frame.
Relayout(r, len, w, h, raf, n) ==
    /\ scrollY' = Min(scrollY, MaxScrollY(r, len, w, h))
    /\ rafPending' = (raf \/ scrollY > MaxScrollY(r, len, w, h))
    /\ frames' = IF ~raf /\ scrollY > MaxScrollY(r, len, w, h) THEN n + 1 ELSE n

InitWindow ==
    /\ db = <<>> /\ dbVersion = 0 /\ pages = <<>> /\ status = "success"
    /\ fetchStatus = "idle" /\ fetchDirection = "initial" /\ newPages = <<>>
    /\ request = NoRequest /\ response = NoResponse /\ failureCount = 0
    /\ isOpen = FALSE /\ currentIndex = 0 /\ triggerElement = NoElement
    /\ restoreTimers = 0 /\ urlImageId = 0 /\ route = "gallery"
    /\ effectsPending = FALSE /\ lastOp = "mount"
    /\ GestureIdle
    /\ ModalIdle /\ bodyOverflow = "" /\ pageOverflow = bodyOverflow
    /\ ageGateOpen = FALSE
    /\ imagesLength \in {VIRTUAL_SCROLL_THRESHOLD, VIRTUAL_SCROLL_THRESHOLD + 13}
    /\ visibleRange = [start |-> 0, end |-> InitialEnd]
    /\ rafPending = FALSE /\ frames = 0
    /\ gridPhase = "rendered"
    /\ scrollY = 0
    /\ innerWidth \in Widths
    /\ innerHeight \in Heights

\* The effects of the first render: the initial range; the scroll and resize
\* listeners and the sentinel observer are attached.
GridMounted ==
    /\ gridPhase = "rendered"
    /\ gridPhase' = "mounted"
    /\ visibleRange' = InitialRange(imagesLength, innerWidth, innerHeight)
    /\ Relayout(visibleRange', imagesLength, innerWidth, innerHeight, FALSE, frames)
    /\ lastOp' = "initialRange"
    /\ UNCHANGED <<imagesLength, innerWidth, innerHeight, containerVars>>

\* The images prop grows: the listener effect is cleaned up (a requested
\* frame is cancelled) and set up again, the first effect resets the range.
GridImagesGrow ==
    /\ gridPhase = "mounted"
    /\ imagesLength < VIRTUAL_SCROLL_THRESHOLD + 13 + MaxGrowths * PageSize
    /\ imagesLength' = imagesLength + PageSize
    /\ visibleRange' = InitialRange(imagesLength', innerWidth, innerHeight)
    /\ Relayout(visibleRange', imagesLength', innerWidth, innerHeight, FALSE,
                IF rafPending THEN frames - 1 ELSE frames)
    /\ lastOp' = "initialRange"
    /\ UNCHANGED <<gridPhase, innerWidth, innerHeight, containerVars>>

\* handleScroll without the rafId test: every event requests a frame.
GridScrollQueueing ==
    /\ gridPhase = "mounted"
    /\ \E k \in 0..Min(MaxScrollSteps,
                      MaxScrollY(visibleRange, imagesLength, innerWidth, innerHeight)
                        \div ScrollStep) :
          /\ k * ScrollStep # scrollY
          /\ scrollY' = k * ScrollStep
    /\ rafPending' = TRUE
    /\ frames' = frames + 1
    /\ lastOp' = IF rafPending THEN "scrollCoalesced" ELSE "scroll"
    /\ UNCHANGED <<imagesLength, visibleRange, gridPhase, innerWidth, innerHeight,
                   containerVars>>

\* handleScroll for a scroll event.
GridScroll ==
    /\ gridPhase = "mounted"
    /\ \E k \in 0..Min(MaxScrollSteps,
                      MaxScrollY(visibleRange, imagesLength, innerWidth, innerHeight)
                        \div ScrollStep) :
          /\ k * ScrollStep # scrollY
          /\ scrollY' = k * ScrollStep
    /\ rafPending' = TRUE
    /\ frames' = IF rafPending THEN frames ELSE frames + 1
    /\ lastOp' = IF rafPending THEN "scrollCoalesced" ELSE "scroll"
    /\ UNCHANGED <<imagesLength, visibleRange, gridPhase, innerWidth, innerHeight,
                   containerVars>>

\* handleScroll for a resize event.
GridResize ==
    /\ gridPhase = "mounted"
    /\ \E w \in Widths : \E h \in Heights :
          /\ <<w, h>> # <<innerWidth, innerHeight>>
          /\ innerWidth' = w /\ innerHeight' = h
          /\ scrollY' = Min(scrollY, MaxScrollY(visibleRange, imagesLength, w, h))
    /\ rafPending' = TRUE
    /\ frames' = IF rafPending THEN frames ELSE frames + 1
    /\ lastOp' = IF rafPending THEN "resizeCoalesced" ELSE "resize"
    /\ UNCHANGED <<imagesLength, visibleRange, gridPhase, containerVars>>

\* A requested animation frame runs. The browser runs every callback that
\* was requested and not cancelled, whether or not the grid is still mounted.
GridAnimationFrame ==
    /\ frames > 0
    /\ IF gridPhase = "mounted"
       THEN /\ visibleRange' = UpdateRange(visibleRange,
                                  ScrollRange(imagesLength, innerWidth, innerHeight,
                                              scrollY),
                                  innerWidth)
            /\ Relayout(visibleRange', imagesLength, innerWidth, innerHeight, FALSE,
                        frames - 1)
            /\ lastOp' = "frame"
       ELSE /\ frames' = frames - 1
            /\ lastOp' = "frameAfterUnmount"
            /\ UNCHANGED <<visibleRange, rafPending, scrollY>>
    /\ UNCHANGED <<imagesLength, gridPhase, innerWidth, innerHeight, containerVars>>

\* The observer reports the top sentinel intersecting.
GridTopSentinel ==
    /\ gridPhase = "mounted"
    /\ TopSentinelIntersecting(visibleRange, scrollY)
    /\ visibleRange.start > 0
    /\ visibleRange' = [start |-> Max(0, visibleRange.start - SentinelStep),
                        end |-> visibleRange.end]
    /\ Relayout(visibleRange', imagesLength, innerWidth, innerHeight, rafPending,
                frames)
    /\ lastOp' = "topSentinel"
    /\ UNCHANGED <<imagesLength, gridPhase, innerWidth, innerHeight, containerVars>>

\* The observer reports the bottom sentinel intersecting.
GridBottomSentinel ==
    /\ gridPhase = "mounted"
    /\ BottomSentinelIntersecting(visibleRange, imagesLength, innerWidth,
                                  innerHeight, scrollY)
    /\ visibleRange.end < imagesLength
    /\ visibleRange' = [start |-> visibleRange.start,
                        end |-> Min(imagesLength, visibleRange.end + SentinelStep)]
    /\ Relayout(visibleRange', imagesLength, innerWidth, innerHeight, rafPending,
                frames)
    /\ lastOp' = "bottomSentinel"
    /\ UNCHANGED <<imagesLength, gridPhase, innerWidth, innerHeight, containerVars>>

\* The grid is unmounted: listeners removed, a requested frame cancelled;
\* the component's state is gone.
GridUnmount ==
    /\ gridPhase = "mounted"
    /\ gridPhase' = "unmounted"
    /\ rafPending' = FALSE
    /\ frames' = IF rafPending THEN frames - 1 ELSE frames
    /\ imagesLength' = 0
    /\ visibleRange' = [start |-> 0, end |-> 0]
    /\ lastOp' = "unmount"
    /\ UNCHANGED <<scrollY, innerWidth, innerHeight, containerVars>>

NextWindow ==
    \/ GridMounted
    \/ GridImagesGrow
    \/ GridScroll
    \/ GridResize
    \/ GridAnimationFrame
    \/ GridTopSentinel
    \/ GridBottomSentinel
    \/ GridUnmount

SpecWindow == InitWindow /\ [][NextWindow]_vars

(* ======================= properties of the claims ====================== *)
IsSortedByOrder(imgs) ==
    \A i \in 1..(Len(imgs) - 1) : imgs[i].display_order < imgs[i + 1].display_order

NoDuplicateIds(imgs) ==
    \A i, j \in 1..Len(imgs) : i # j => imgs[i].id # imgs[j].id

IsPrefix(a, b) == Len(a) <= Len(b) /\ SubSeq(b, 1, Len(a)) = a

Is4xx(st) == 400 <= st /\ st < 500

RECURSIVE IterateNext(_, _, _)
\* goToNext applied k times to index i of a collection of n images.
IterateNext(i, n, k) ==
    IF k = 0 THEN i ELSE IterateNext(GoToNextIndex(i, n), n, k - 1)

\* C1: whenever the lightbox is open, currentIndex is a valid index into the
\* collection: 0 <= currentIndex < Collection.length.
C1_OpenIndexValid ==
    isOpen => (0 <= currentIndex /\ currentIndex < Len(Images))

\* C2: on a collection of n > 0 images goToNext sets currentIndex to
\* (currentIndex + 1) mod n and goToPrevious to (currentIndex - 1 + n) mod n,
\* so next from n - 1 gives 0 and previous from 0 gives n - 1; on an empty
\* collection both leave currentIndex unchanged.
C2_WrapAround ==
    [][LET n == Len(Images) IN
        /\ lastOp' = "goToNext" =>
              /\ n = 0 => currentIndex' = currentIndex
              /\ n > 0 => currentIndex' = (currentIndex + 1) % n
              /\ (n > 0 /\ currentIndex = n - 1) => currentIndex' = 0
        /\ lastOp' = "goToPrevious" =>
              /\ n = 0 => currentIndex' = currentIndex
              /\ n > 0 => currentIndex' = (currentIndex - 1 + n) % n
              /\ (n > 0 /\ currentIndex = 0) => currentIndex' = n - 1
      ]_vars

\* Witness of C2: goToNext has just wrapped from the last image of a
\* collection of at least two images to the first.
C2_Witness ==
    lastOp = "goToNext" /\ currentIndex = 0 /\ Len(Images) >= 2 /\ isOpen

\* C3: for a collection of n > 0 images and every currentIndex the machine
\* reaches, n applications of goToNext lead back to that currentIndex.
C3_NextClosure ==
    Len(Images) > 0 =>
        IterateNext(currentIndex, Len(Images), Len(Images)) = currentIndex

\* C4: with pages of distinct ids and monotonic order (the backend's
\* ordering did not change), the collection is at all times the pages in
\* page order: a prefix of the gallery, and the whole gallery once the last
\* page is loaded, whatever failures and retries happened on the way.
C4_PageOrderMerge ==
    dbVersion = 0 =>
        /\ IsPrefix(Images, db)
        /\ (pages # <<>> /\ ~HasNextPage) => Images = db

\* Witness of C4: a gallery of several pages is loaded completely.
C4_Witness ==
    /\ dbVersion = 0 /\ Len(pages) >= 2 /\ ~HasNextPage
    /\ fetchStatus = "idle" /\ status = "success"

\* C5: after any sequence of page merges the collection is in ascending
\* display order and holds no two images with the same id.
C5_SortedNoDuplicates ==
    IsSortedByOrder(Images) /\ NoDuplicateIds(Images)

\* C6: a failed page fetch leaves the collection, hasMore and the cursor as
\* they were; a fetch of the next page that then succeeds (an automatic
\* retry or a later one) was requested with the unchanged cursor and
\* appends exactly the page the backend served for it.
C6_FailedLoadKeepsState ==
    [][/\ lastOp' = "fetchError" =>
             /\ pages' = pages
             /\ HasNextPage' = HasNextPage
             /\ (pages # <<>> => GetNextPageParam(LastPage)' = GetNextPageParam(LastPage))
       /\ (lastOp' = "page" /\ fetchDirection = "forward"
             /\ (failureCount > 0 \/ status = "error")) =>
             /\ request[1].cursor = <<LastPage.pagination.next_cursor>>
             /\ pages' = Append(pages, response[1].body[1])
      ]_vars

\* Witness of C6: the fetch of a next page has failed while pages are loaded.
C6_Witness ==
    /\ lastOp = "fetchError" /\ status = "error" /\ fetchStatus = "idle"
    /\ pages # <<>> /\ HasNextPage /\ fetchDirection = "forward"

\* C7: a fetch that fails with HTTP 4xx is not retried; a fetch that fails
\* otherwise (5xx, network) is retried until RetryLimit retries are used up.
C7_RetryPolicy ==
    [][lastOp' = "fetchError" =>
          LET st == response[1].status IN
          /\ Is4xx(st) => fetchStatus' = "idle"
          /\ (~Is4xx(st) /\ failureCount < RetryLimit) => fetchStatus' = "fetching"
          /\ failureCount >= RetryLimit => fetchStatus' = "idle"
      ]_vars

\* C8: hasMore is the has_more flag of the page loaded last, the request
\* for a next page carries that page's next_cursor, and the first request
\* carries no cursor.
C8_HasMoreAndCursor ==
    /\ pages # <<>> => (HasNextPage <=> LastPage.pagination.has_more)
    /\ (fetchStatus = "fetching" /\ fetchDirection = "forward") =>
          request[1].cursor = <<LastPage.pagination.next_cursor>>
    /\ (fetchStatus = "fetching" /\ fetchDirection = "initial") =>
          request[1].cursor = <<>>

\* Witness of C8: a next page is being requested after a page with has_more.
C8_Witness ==
    /\ fetchStatus = "fetching" /\ fetchDirection = "forward"
    /\ pages # <<>> /\ LastPage.pagination.has_more
    /\ request[1].cursor # <<>>

\* Largest range the initial and the scroll computation produce for any of
\* the viewports.
MaxWindowSize ==
    LET sizes == {Max(VisibleCount(w, h) * 2, VisibleCount(w, h) + ItemsPerRow(w) * 2)
                    : w \in Widths, h \in Heights}
    IN CHOOSE m \in sizes : \A x \in sizes : x <= m

\* C9: every range of the window calculator satisfies
\* 0 <= start <= end <= Collection.length and end - start is at most the
\* buffer-derived maximum.
C9_WindowRangeValid ==
    gridPhase # "unmounted" =>
        /\ 0 <= visibleRange.start
        /\ visibleRange.start <= visibleRange.end
        /\ visibleRange.end <= imagesLength
        /\ visibleRange.end - visibleRange.start <= MaxWindowSize

\* C10: the redirect to the not-found page happens only when the deep
\* link's id is absent from the collection and hasMore is false.
C10_NotFoundOnlyWhenExhausted ==
    [][(route = "gallery" /\ route' = "notfound") =>
          (FindIndex(Images, urlImageId) = -1 /\ ~HasNextPage)
      ]_vars

\* The deep link to id is resolved: the lightbox shows the image with that
\* id when the gallery has one, the not-found page is shown when it has none.
DeepLinkResolved(id) ==
    IF \E i \in 1..Len(db) : db[i].id = id
    THEN isOpen /\ CurrentImagePos # 0 /\ Images[CurrentImagePos].id = id
    ELSE route = "notfound"

\* The resolution was taken out of the deep link's hands: a fetch failed for
\* good, the backend's ordering changed, or the visitor opened an image.
DeepLinkExcused == IsError \/ dbVersion > 0 \/ (lastOp = "open" /\ lastArg # NoArg)

\* C11: a deep link /gallery/{id} eventually opens the lightbox at the image
\* with that id when a page of the gallery contains it, and eventually
\* raises not-found when none does; it does not stay unresolved forever.
C11_DeepLinkResolves ==
    \A id \in ImageIds :
        (lastOp = "mount" /\ urlImageId = id) ~> (DeepLinkResolved(id) \/ DeepLinkExcused)

\* C12: when the effects of a render run in which the lightbox is open and
\* the URL's image id differs from the id of the image at currentIndex, the
\* URL is replaced, without a history entry being pushed, by the URL of
\* that image.
C12_UrlReplaced ==
    [][(/\ lastOp' = "effects"
        /\ isOpen /\ CurrentImagePos # 0
        /\ urlImageId # Images[CurrentImagePos].id) =>
          LET id == Images[CurrentImagePos].id IN
          /\ urlImageId' = id /\ route' = "gallery"
          /\ calls' # <<>>
          /\ calls'[Len(calls')] = Navigate("gallery", id, TRUE)
          /\ \A k \in 1..Len(calls') : calls'[k].replace
      ]_vars

\* Witness of C12: the effects have just replaced the URL by that of the
\* image the lightbox moved to.
C12_Witness ==
    /\ lastOp = "effects" /\ calls # <<>>
    /\ calls[Len(calls)] = Navigate("gallery", urlImageId, TRUE)
    /\ urlImageId # 0 /\ Len(Images) >= 2

\* C13: closing the lightbox leaves the URL at /gallery, without an image
\* id, and while the lightbox stays closed the URL stays without one.
C13_CloseClearsUrl ==
    [][/\ lastOp' = "close" => (urlImageId' = 0 /\ route' = "gallery")
       /\ (~isOpen /\ ~isOpen' /\ urlImageId = 0 /\ route' = "gallery") =>
             urlImageId' = 0
      ]_vars

\* Witness of C13: the lightbox, open at /gallery/{id}, has just been closed
\* and the navigation to /gallery was made.
C13_Witness ==
    /\ lastOp = "close" /\ ~isOpen /\ urlImageId = 0
    /\ \E k \in 1..Len(calls) : calls[k] = Navigate("gallery", 0, TRUE)

\* C14: with the dialog open and the focus inside it, Tab and Shift+Tab keep
\* the focus inside: Tab on the last focusable element moves it to the
\* first, Shift+Tab on the first moves it to the last.
C14_FocusTrapped ==
    [][(lastOp' \in {"tab", "shiftTab"} /\ focus \in ModalElements) =>
          /\ focus' \in ModalElements
          /\ (lastOp' = "tab" /\ focus = FocusOrder[Len(FocusOrder)]) =>
                focus' = FocusOrder[1]
          /\ (lastOp' = "shiftTab" /\ focus = FocusOrder[1]) =>
                focus' = FocusOrder[Len(FocusOrder)]
      ]_vars

\* C15: once the effects of the render that shows the dialog have run and
\* the timeout they set has fired, the focus is inside the dialog; close()
\* schedules the restoration of the focus, and when it runs the trigger
\* element gets the focus if it is still in the document; once a close is
\* processed completely, the grid item the dialog was opened from has the
\* focus if it is still in the document.
C15_FocusMovesInAndBack ==
    /\ []((ModalInDom /\ ~effectsPending /\ ~focusTimer) => focus \in ModalElements)
    /\ []((/\ ~isOpen /\ ~effectsPending /\ restoreTimers = 0
           /\ previousActive = "item" /\ ItemAttached) => focus = "item")
    /\ [][/\ lastOp' = "close" => restoreTimers' = restoreTimers + 1
          /\ (lastOp' = "restoreFocus" /\ triggerElement = "item" /\ ItemAttached) =>
                focus' = "item"
         ]_vars

\* Witness of C15: the lightbox opened from a grid item was closed and the
\* restoration, running before the effects of the close, gave the focus
\* back to the item.
C15_Witness ==
    /\ lastOp = "restoreFocus" /\ focus = "item"
    /\ ~isOpen /\ effectIsOpen /\ effectsPending

\* C16: in every state in which the lightbox is open and the effects of its
\* opening have run, body overflow is 'hidden'; once the lightbox is closed
\* and the effects of the close have run, body overflow has the value it
\* had before the lightbox was opened.
C16_BodyScrollLocked ==
    ~effectsPending =>
        /\ isOpen => bodyOverflow = "hidden"
        /\ ~isOpen => bodyOverflow = pageOverflow

\* C17: open(image) with an image whose id is not in the collection does
\* not put the lightbox in Open with a currentIndex past the end of the
\* collection.
C17_OpenUnknownImageRejected ==
    [][(/\ lastOp' = "open" /\ lastArg'.kind = "image"
        /\ ~\E i \in 1..Len(Images) : Images[i].id = lastArg'.value) =>
          ~(isOpen' /\ currentIndex' >= Len(Images))
      ]_vars

\* i clamped into [lo, hi], for lo <= hi.
Clamped(i, lo, hi) == IF i < lo THEN lo ELSE IF i > hi THEN hi ELSE i

\* C18: open(image) with an image of the collection opens the lightbox at
\* the index of a member with the same id; open(i) on a non-empty collection
\* opens it at i clamped to [0, length - 1]; both whether the lightbox was
\* closed or already open.
C18_OpenSeeks ==
    [][lastOp' = "open" =>
        /\ isOpen'
        /\ (/\ lastArg'.kind = "image"
            /\ \E i \in 1..Len(Images) : Images[i].id = lastArg'.value) =>
              /\ currentIndex' \in 0..(Len(Images) - 1)
              /\ Images[currentIndex' + 1].id = lastArg'.value
        /\ (lastArg'.kind = "index" /\ Len(Images) > 0) =>
              currentIndex' = Clamped(lastArg'.value, 0, Len(Images) - 1)
      ]_vars

\* An open lightbox just re-opened by image at the second of two images.
C18_Witness ==
    /\ lastOp = "open" /\ lastArg.kind = "image" /\ isOpen
    /\ Len(Images) >= 2 /\ currentIndex = 1
    /\ Images[2].id = lastArg.value

\* C19: goTo(index) on a non-empty collection sets currentIndex to index
\* clamped into [0, length - 1], for negative, in-range and too large
\* indexes alike, and leaves isOpen alone; it never wraps around.
C19_GoToClamps ==
    [][(lastOp' = "goTo" /\ Len(Images) > 0) =>
        /\ currentIndex' = Clamped(lastArg'.value, 0, Len(Images) - 1)
        /\ isOpen' = isOpen
      ]_vars

\* goTo with an index past the end has stopped at the last of two images.
C19_Witness ==
    /\ lastOp = "goTo" /\ Len(Images) >= 2
    /\ lastArg.value > Len(Images) - 1
    /\ currentIndex = Len(Images) - 1

\* C20: close() leaves the lightbox closed, keeps currentIndex and invokes
\* onClose exactly once.
C20_CloseKeepsPosition ==
    [][lastOp' = "close" =>
        /\ ~isOpen'
        /\ currentIndex' = currentIndex
        /\ Cardinality({k \in 1..Len(calls') : calls'[k] = OnCloseCall}) = 1
      ]_vars

\* The lightbox was open at the second image and has just been closed.
C20_Witness ==
    /\ lastOp = "close" /\ ~isOpen
    /\ Len(Images) >= 2 /\ currentIndex = 1
    /\ calls = <<OnCloseCall>>

(* ------------------------ useSwipe, usePinchZoom ----------------------- *)
\* Most touches the surface tracks at once.
Fingers == 2
\* Date.now() ticks the model lets pass, and the milliseconds of one tick.
MaxTicks == 2
TickMs == 200
\* Two-touch gestures the model lets begin.
MaxPinches == 1

\* clientX and clientY of the points a touch may be at.
Points == {[x |-> 0, y |-> 0], [x |-> 40, y |-> 0], [x |-> 80, y |-> 0],
           [x |-> 0, y |-> 60]}

\* The first two touches are a whole number of pixels apart, so that
\* Math.sqrt in getDistance is exact.
Pinchable(ts) ==
    IF Len(ts) < 2 THEN TRUE
    ELSE LET dx == ts[2].x - ts[1].x
             dy == ts[2].y - ts[1].y
         IN \E r \in 0..(Abs(dx) + Abs(dy)) : r * r = dx * dx + dy * dy

\* usePinchZoom's getDistance(touch1, touch2): Math.sqrt(dx * dx + dy * dy)
getDistance(touch1, touch2) ==
    LET dx == touch2.x - touch1.x
        dy == touch2.y - touch1.y
    IN CHOOSE r \in 0..(Abs(dx) + Abs(dy)) : r * r = dx * dx + dy * dy

\* updateScale's clampedScale
updateScale(newScale) ==
    MathMax(PinchOptions.minScale, MathMin(PinchOptions.maxScale, newScale))

\* usePinchZoom's handleTouchStart
PinchTouchStart(ts) ==
    /\ pinchState' = IF Len(ts) = 2
                     THEN [initialDistance |-> getDistance(ts[1], ts[2]),
                           initialScale |-> scale]
                     ELSE NoPinch
    /\ scale' = scale

\* usePinchZoom's handleTouchMove
PinchTouchMove(ts) ==
    /\ scale' = IF pinchState = NoPinch \/ Len(ts) # 2 THEN scale
                ELSE LET currentDistance == getDistance(ts[1], ts[2])
                         scaleChange == Num(currentDistance, pinchState.initialDistance)
                     IN updateScale(Times(pinchState.initialScale, scaleChange))
    /\ pinchState' = pinchState

\* usePinchZoom's handleTouchEnd
PinchTouchEnd(ts) ==
    /\ pinchState' = IF Len(ts) < 2 THEN NoPinch ELSE pinchState
    /\ scale' = scale

\* useSwipe's handleTouchStart
SwipeTouchStart(ts) ==
    touchState' = [startX |-> ts[1].x, startY |-> ts[1].y, startTime |-> now * TickMs,
                   currentX |-> ts[1].x, currentY |-> ts[1].y]

\* useSwipe's handleTouchMove
SwipeTouchMove(ts) ==
    touchState' = IF touchState = NoTouch THEN touchState
                  ELSE [touchState EXCEPT !.currentX = ts[1].x, !.currentY = ts[1].y]

\* Mutant of SwipeDirection: the velocity is not looked at.
SwipeDirectionAnySpeed(st, time) ==
    LET deltaX == st.currentX - st.startX
        deltaY == st.currentY - st.startY
        distSq == deltaX * deltaX + deltaY * deltaY
    IN IF st = NoTouch \/ distSq < SwipeOptions.threshold * SwipeOptions.threshold
       THEN "none"
       ELSE IF Abs(deltaX) > Abs(deltaY)
            THEN (IF deltaX > 0 THEN "right" ELSE IF deltaX < 0 THEN "left" ELSE "none")
            ELSE "none"

\* What useSwipe's handleTouchEnd raises for the touch state st at time:
\* onSwipeRight, onSwipeLeft or nothing (the Lightbox passes no onSwipeUp
\* and no onSwipeDown). distance = Math.sqrt(distSq) and velocity =
\* distance / deltaTime are compared with the thresholds on their squares,
\* where the comparisons are exact.
SwipeDirection(st, time) ==
    LET deltaX == st.currentX - st.startX
        deltaY == st.currentY - st.startY
        deltaTime == time - st.startTime
        distSq == deltaX * deltaX + deltaY * deltaY
        v == SwipeOptions.velocityThreshold
    IN IF \/ st = NoTouch
          \/ distSq < SwipeOptions.threshold * SwipeOptions.threshold
          \/ distSq * v.den * v.den < v.num * v.num * deltaTime * deltaTime
       THEN "none"
       ELSE IF Abs(deltaX) > Abs(deltaY)
            THEN (IF deltaX > 0 THEN "right" ELSE IF deltaX < 0 THEN "left" ELSE "none")
            ELSE "none"

\* onSwipeLeft() or onSwipeRight(), as an entry of calls.
SwipeCall(direction) ==
    [fn |-> IF direction = "left" THEN "onSwipeLeft" ELSE "onSwipeRight",
     route |-> "", imageId |-> 0, replace |-> FALSE]

\* What no touch event changes.
touchFrame == <<windowVars, modalVars, serverVars, queryVars, routerVars,
                effectsPending, lastArg, fullscreenElement, isFullscreen>>

\* touchstart: one more touch lands on the element; both recognizers'
\* handlers run.
TouchStart ==
    /\ Len(touches) < Fingers
    /\ \E p \in Points :
        LET ts == Append(touches, p) IN
        /\ Pinchable(ts)
        /\ IF Len(ts) = 2 THEN pinches < MaxPinches ELSE TRUE
        /\ pinches' = IF Len(ts) = 2 THEN pinches + 1 ELSE pinches
        /\ touches' = ts
        /\ SwipeTouchStart(ts)
        /\ PinchTouchStart(ts)
        /\ gesture' =
             IF touches = <<>>
             THEN [startX |-> p.x, startY |-> p.y, startTime |-> now * TickMs,
                   maxTouches |-> 1, events |-> 0,
                   pinchDistance |-> -1, pinchScale |-> NaN]
             ELSE [gesture EXCEPT
                     !.maxTouches = Max(@, Len(ts)),
                     !.pinchDistance = IF Len(ts) = 2 THEN getDistance(ts[1], ts[2]) ELSE -1,
                     !.pinchScale = IF Len(ts) = 2 THEN scale ELSE NaN]
    /\ lastOp' = "touchstart"
    /\ calls' = <<>>
    /\ UNCHANGED <<touchFrame, lightboxVars, now>>

\* touchmove: active touches move; both recognizers' handlers run.
TouchMove ==
    /\ touches # <<>>
    /\ \E ts \in [1..Len(touches) -> Points] :
        /\ ts # touches
        /\ Pinchable(ts)
        /\ touches' = ts
        /\ SwipeTouchMove(ts)
        /\ PinchTouchMove(ts)
    /\ lastOp' = "touchmove"
    /\ calls' = <<>>
    /\ UNCHANGED <<touchFrame, lightboxVars, now, pinches, gesture>>

\* touchend: one touch is lifted; both recognizers' handlers run, and a
\* swipe handed to onNext or onPrevious moves the lightbox.
TouchEnd ==
    /\ touches # <<>>
    /\ \E k \in 1..Len(touches) :
        LET ts == SubSeq(touches, 1, k - 1) \o SubSeq(touches, k + 1, Len(touches))
            raised == SwipeDirection(touchState, now * TickMs)
        IN
        /\ touches' = ts
        /\ touchState' = NoTouch
        /\ PinchTouchEnd(ts)
        /\ calls' = IF raised = "none" THEN <<>> ELSE <<SwipeCall(raised)>>
        /\ IF raised = "left" THEN LbGoToNext
           ELSE IF raised = "right" THEN LbGoToPrevious
           ELSE UNCHANGED lightboxVars
        /\ gesture' = [gesture EXCEPT
                         !.events = IF raised = "none" THEN @ ELSE @ + 1,
                         !.pinchDistance = IF Len(ts) < 2 THEN -1 ELSE @,
                         !.pinchScale = IF Len(ts) < 2 THEN NaN ELSE @]
    /\ lastOp' = "touchend"
    /\ UNCHANGED <<touchFrame, now, pinches>>

\* usePinchZoom's reset()
PinchReset ==
    /\ scale' = updateScale(PinchOptions.initialScale)
    /\ lastOp' = "reset"
    /\ calls' = <<>>
    /\ UNCHANGED <<touchFrame, lightboxVars, touches, now, touchState, pinchState,
                   pinches, gesture>>

\* Time passes while a touch is down.
Tick ==
    /\ touches # <<>>
    /\ now < MaxTicks
    /\ now' = now + 1
    /\ lastOp' = "tick"
    /\ calls' = <<>>
    /\ UNCHANGED <<touchFrame, lightboxVars, touches, touchState, pinchState,
                   scale, pinches, gesture>>

\* useLightbox over a loaded collection, with useSwipe and usePinchZoom
\* listening on one element as in the Lightbox.
HooksMounted ==
    /\ db = MakeDb(MaxImages)
    /\ dbVersion = 0
    /\ pages = <<ServerPage(db, BuildRequest(MaxImages, Undefined))>>
    /\ status = "success"
    /\ fetchStatus = "idle"
    /\ fetchDirection = "initial"
    /\ newPages = <<>>
    /\ request = NoRequest
    /\ response = NoResponse
    /\ failureCount = 0
    /\ isOpen = FALSE
    /\ currentIndex = 0
    /\ triggerElement = NoElement
    /\ restoreTimers = 0
    /\ urlImageId = 0
    /\ route = "gallery"
    /\ effectsPending = FALSE
    /\ lastOp = "mount"
    /\ WindowIdle
    /\ ModalIdle /\ bodyOverflow = "" /\ pageOverflow = bodyOverflow
    /\ ageGateOpen = FALSE
    /\ touches = <<>>
    /\ now = 0
    /\ touchState = NoTouch
    /\ pinchState = NoPinch
    /\ scale = PinchOptions.initialScale
    /\ gesture = NoGesture
    /\ fullscreenElement = FALSE
    /\ isFullscreen = FALSE

InitTouch == HooksMounted /\ pinches = 0

\* The same hooks under gestures of one touch: no second touch lands.
InitSwipe == HooksMounted /\ pinches = MaxPinches

NextTouch ==
    \/ TouchStart
    \/ TouchMove
    \/ TouchEnd
    \/ PinchReset
    \/ Tick

SpecTouch == InitTouch /\ [][NextTouch]_vars

SpecSwipe == InitSwipe /\ [][NextTouch]_vars

\* x clamped into [lo, hi], for numbers.
ClampedNum(x, lo, hi) == IF Less(x, lo) THEN lo ELSE IF Less(hi, x) THEN hi ELSE x

\* C21: the pinch scale is a number of [minScale, maxScale] = [1, 5] after
\* every touch event and every reset(), and after a move of a two-touch
\* gesture it is (current distance / start distance) times the scale the
\* gesture began with, clamped to that interval.
C21_PinchScaleInRange ==
    /\ scale # NaN /\ ~Less(scale, PinchOptions.minScale)
    /\ ~Less(PinchOptions.maxScale, scale)
    /\ (lastOp = "touchmove" /\ Len(touches) = 2 /\ gesture.pinchDistance > 0) =>
          scale = ClampedNum(Times(gesture.pinchScale,
                                   Num(getDistance(touches[1], touches[2]),
                                       gesture.pinchDistance)),
                             PinchOptions.minScale, PinchOptions.maxScale)

\* C22: when the only touch of a gesture is released, a horizontal swipe is
\* raised (left: next, right: previous) exactly if |dx| > |dy|, the distance
\* is at least the threshold (50px) and distance / elapsed time is at least
\* the velocity threshold (0.3 px/ms), measured from where and when the
\* touch landed; no other touch event raises one, and such a gesture raises
\* at most one.
C22_SwipeRecognized ==
    [][/\ (lastOp' = "touchend" /\ gesture.maxTouches = 1) =>
            LET dx == touches[1].x - gesture.startX
                dy == touches[1].y - gesture.startY
                dt == now * TickMs - gesture.startTime
                v == SwipeOptions.velocityThreshold
                swipe == /\ Abs(dx) > Abs(dy)
                         /\ dx * dx + dy * dy >= SwipeOptions.threshold * SwipeOptions.threshold
                         /\ (dx * dx + dy * dy) * v.den * v.den >= v.num * v.num * dt * dt
            IN IF swipe /\ dx < 0
               THEN /\ calls' = <<SwipeCall("left")>>
                    /\ currentIndex' = GoToNextIndex(currentIndex, Len(Images))
               ELSE IF swipe
               THEN /\ calls' = <<SwipeCall("right")>>
                    /\ currentIndex' = GoToPreviousIndex(currentIndex, Len(Images))
               ELSE calls' = <<>> /\ currentIndex' = currentIndex
       /\ lastOp' \in {"touchstart", "touchmove", "reset", "tick"} =>
            calls' = <<>> /\ currentIndex' = currentIndex
       /\ gesture'.maxTouches = 1 => gesture'.events <= 1
      ]_vars

\* A single touch swept left fast enough has just been released and the
\* lightbox moved to the second image.
C22_Witness ==
    /\ lastOp = "touchend" /\ gesture.maxTouches = 1 /\ gesture.events = 1
    /\ calls = <<SwipeCall("left")>> /\ currentIndex = 1

\* C30: releasing a touch of a gesture that had two touches down at some
\* time raises no swipe and leaves currentIndex alone.
C30_PinchIsNoSwipe ==
    [][(lastOp' = "touchend" /\ gesture.maxTouches >= 2) =>
          calls' = <<>> /\ currentIndex' = currentIndex]_vars

RowsInBuffer(y, h) ==
    {r \in 0..((y + h + VIEWPORT_BUFFER) \div ItemHeight) :
        /\ (r + 1) * ItemHeight > y - VIEWPORT_BUFFER
        /\ r * ItemHeight < y + h + VIEWPORT_BUFFER}

\* The items of row r in a collection of len items laid out w wide.
RowItems(r, len, w) ==
    {i \in (r * ItemsPerRow(w))..(r * ItemsPerRow(w) + ItemsPerRow(w) - 1) : i < len}

\* C24: the range an animation-frame recomputation produces contains every
\* item of every row that intersects [scrollTop - 1000, scrollTop +
\* viewportHeight + 1000], clipped to the collection.
C24_WindowCoversBufferedRows ==
    [][lastOp' = "frame" =>
          \A r \in RowsInBuffer(scrollY, innerHeight) :
             \A i \in RowItems(r, imagesLength, innerWidth) :
                visibleRange'.start <= i /\ i < visibleRange'.end
      ]_vars

\* C25: at most one recomputation is scheduled at any time; a scroll or
\* resize event that arrives while one is scheduled requests no further
\* frame; and after teardown no frame is left to run, so a recomputation
\* never runs for an unmounted grid.
C25_OneRecomputePerFrame ==
    /\ [](/\ frames <= 1
          /\ rafPending <=> frames = 1
          /\ gridPhase = "unmounted" => frames = 0
          /\ lastOp # "frameAfterUnmount")
    /\ [][(lastOp' \in {"scrollCoalesced", "resizeCoalesced"}) =>
             (rafPending /\ frames' = frames /\ visibleRange' = visibleRange)]_vars

\* Witness of C25: a scroll event has arrived while a recomputation was
\* scheduled, and the one scheduled frame is still to run.
C25_Witness ==
    lastOp = "scrollCoalesced" /\ rafPending /\ frames = 1 /\ gridPhase = "mounted"

\* A step in which fetchNextPage() is called: by the sentinel's observer or
\* by the deep-link effect.
LoadNextInvoked ==
    \/ lastOp' = "loadMore"
    \/ lastOp' = "effects" /\ DeepLinkOutcome = "fetch"

C27_NavigationNotUndone ==
    [][(/\ lastOp \in {"goToNext", "goToPrevious"}
        /\ triggerElement = "body" /\ isOpen
        /\ lastOp' = "effects")
       => (/\ isOpen' /\ currentIndex' = currentIndex
           /\ CurrentImagePos # 0 => urlImageId' = Images[CurrentImagePos].id)
      ]_vars

\* C28: when the lightbox was reopened before the focus restoration that
\* close() deferred has run, the deferred callback leaves the trigger of
\* the reopened lightbox in place and does not move the focus.
C28_ReopenKeepsTrigger ==
    [][(lastOp' = "restoreFocus" /\ isOpen /\ triggerElement # NoElement)
         => (triggerElement' = triggerElement /\ focus' = focus)]_vars

\* C29: with the scroll lock owned by useLightbox, by the Lightbox and by
\* the age gate, once the effects of a render have run body scroll is
\* suppressed while the lightbox or the age gate is open and is not
\* suppressed when neither is.
C29_ScrollLockOwners ==
    ~effectsPending =>
        /\ (ModalInDom \/ ageGateOpen) => bodyOverflow = "hidden"
        /\ (~isOpen /\ ~ageGateOpen) => bodyOverflow # "hidden"

====
